---- MODULE Spec2Model ----
(***************************************************************************)
(* The discrete 3D lattice simulator of lattice-gpu (DiscreteLatticeGPU).  *)
(*                                                                         *)
(* The host (lib.rs) owns two ping-pong energy buffers, a staging buffer   *)
(* and a parameter block, and talks to the device through one in-order     *)
(* queue: write_buffer and submit append commands, the device executes     *)
(* them one after the other.  A compute dispatch runs one thread per site; *)
(* the threads of one dispatch interleave freely.                          *)
(*                                                                         *)
(* The two kernels (shader.wgsl: copy_energy, propagate_energy) are not    *)
(* among the source files; they are modelled from the design document      *)
(* (sections 4.D and 4.E, rules R1-R4).                                    *)
(***************************************************************************)
EXTENDS Integers, Naturals, Sequences, FiniteSets, TLC

VARIABLES
    width, height, depth,   \* DiscreteLatticeGPU.width / height / depth
    total_sites,            \* DiscreteLatticeGPU.total_sites
    overflow_checks,        \* build profile: TRUE = debug (arithmetic overflow panics)
    limits,                 \* the limits the device was requested with, in bytes
    step_count,             \* DiscreteLatticeGPU.step_count (host side)
    energy_buffer_a,        \* device contents of energy_buffer_a
    energy_buffer_b,        \* device contents of energy_buffer_b
    params_buffer,          \* device contents of params_buffer (the step_count field)
    staging_buffer,         \* contents of staging_buffer between a copy into it and
                            \* its unmap (nothing reads it outside that window)
    staging_state,          \* "unmapped" | "pending" | "mapped"
    queue,                  \* commands written/submitted and not yet executed
    tpc,                    \* per-site thread position in the dispatch at the head
    oob_done,               \* the out-of-range threads of that dispatch have returned
    host,                   \* "idle" | "add_energy_quantum" | "get_total_energy" | "panicked"
                            \* | "new" (in SpecNew: the constructor has not returned)
    injections,             \* add_energy_quantum calls made so far (bounds the run)
    history,                \* the last host operation, and the one before it when
                            \* the last is get_total_energy (observation only)
    field0                  \* the field at the start of the run (observation only)

vars == <<width, height, depth, total_sites, overflow_checks, limits, step_count,
          energy_buffer_a, energy_buffer_b, params_buffer, staging_buffer,
          staging_state, queue, tpc, oob_done, host, injections,
          history, field0>>

(***************************************************************************)
(* Bounds of the model.                                                    *)
(***************************************************************************)
MaxSites == 3      \* lattices of at most this many sites
MaxSteps == 3      \* propagate_energy calls per run
MaxQueue == 6      \* commands waiting in the device queue
MaxInject == 2     \* add_energy_quantum calls per run

(***************************************************************************)
(* Program constants.                                                      *)
(***************************************************************************)
CAP == 3                   \* saturation value of a site
WORKGROUP == 4             \* threads per workgroup along each axis

(***************************************************************************)
(* u32 words.  A word is held as the integer congruent to it modulo 2^32   *)
(* in -2^31 .. 2^31-1 (two's complement), so that + and - on words are     *)
(* the wrapping u32 operations: 0xFFFFFFFF is -1, and 0xFFFFFFFF + 3 = 2.  *)
(* Order is the unsigned one: a negative integer is a word >= 2^31.        *)
(***************************************************************************)
MAX_U32 == 0 - 1           \* the word 2^32 - 1

\* a < b as u32 words
ULt(a, b) == IF (a < 0) = (b < 0) THEN a < b ELSE b < 0
\* u32::min
UMin(a, b) == IF ULt(a, b) THEN a ELSE b
\* a + b as u32 words, wrapping
WrapAdd(a, b) == a + b
\* a - b as u32 words, wrapping
WrapSub(a, b) == a - b
\* the exact sum a + b does not fit in 32 bits
AddOverflows(a, b) == ULt(a + b, a)

\* byte i (0 = lowest) of a word
Limb(a, i) ==
    (a \div (IF i = 0 THEN 1 ELSE IF i = 1 THEN 256
             ELSE IF i = 2 THEN 65536 ELSE 16777216)) % 256

\* column k of the schoolbook product of two words, byte by byte
Column(a, b, k) ==
    LET I == {i \in 0..3 : k - i \in 0..3}
        RECURSIVE Acc(_)
        Acc(S) == IF S = {} THEN 0
                  ELSE LET i == CHOOSE j \in S : TRUE
                       IN  Limb(a, i) * Limb(b, k - i) + Acc(S \ {i})
    IN  Acc(I)

\* column k plus the carry out of the columns below it
RECURSIVE ColumnSum(_, _, _)
ColumnSum(a, b, k) ==
    Column(a, b, k) + (IF k = 0 THEN 0 ELSE ColumnSum(a, b, k - 1) \div 256)

\* byte k (0..7) of the exact 64-bit product a * b
ProductByte(a, b, k) == ColumnSum(a, b, k) % 256

\* a * b as u32 words, wrapping
WrapMul(a, b) ==
    ProductByte(a, b, 0) + ProductByte(a, b, 1) * 256 + ProductByte(a, b, 2) * 65536
    + (IF ProductByte(a, b, 3) >= 128 THEN ProductByte(a, b, 3) - 256
       ELSE ProductByte(a, b, 3)) * 16777216

\* the exact product a * b does not fit in 32 bits
MulOverflows(a, b) == \E k \in 4..7 : ProductByte(a, b, k) # 0

Sites == 0 .. (total_sites - 1)

(***************************************************************************)
(* Site addressing.                                                        *)
(***************************************************************************)
\* idx = z*W*H + y*W + x
Index(x, y, z) == z * width * height + y * width + x

XOf(p) == p % width
YOf(p) == (p \div width) % height
ZOf(p) == p \div (width * height)

InBounds(x, y, z) ==
    /\ 0 <= x /\ x < width
    /\ 0 <= y /\ y < height
    /\ 0 <= z /\ z < depth

\* the six axis directions +x, -x, +y, -y, +z, -z
DX(d) == IF d = 0 THEN 1 ELSE IF d = 1 THEN -1 ELSE 0
DY(d) == IF d = 2 THEN 1 ELSE IF d = 3 THEN -1 ELSE 0
DZ(d) == IF d = 4 THEN 1 ELSE IF d = 5 THEN -1 ELSE 0

\* a variant with periodic boundaries: the neighbour beyond a face is the
\* site on the opposite face
NeighborWrap(p, d) ==
    Index((XOf(p) + DX(d) + width) % width,
          (YOf(p) + DY(d) + height) % height,
          (ZOf(p) + DZ(d) + depth) % depth)

\* the site next to p in direction d, or -1 beyond a lattice face
\* (absorbing walls: no wrap)
Neighbor(p, d) ==
    IF InBounds(XOf(p) + DX(d), YOf(p) + DY(d), ZOf(p) + DZ(d))
    THEN Index(XOf(p) + DX(d), YOf(p) + DY(d), ZOf(p) + DZ(d))
    ELSE -1

\* out-of-bounds reads are 0
ReadNeighbor(input, p, d) ==
    IF Neighbor(p, d) = -1 THEN 0 ELSE input[Neighbor(p, d)]

(***************************************************************************)
(* Pass 2 direction choice (rules R1-R4).                                  *)
(***************************************************************************)
\* h(p, step_count): the k-th direction of the site's permutation
Perm(p, step, k) == (k + p + step) % 6

\* a variant without R2: any in-bounds neighbour below the cap is eligible
EligibleBelowCap(input, p, d) ==
    /\ Neighbor(p, d) # -1
    /\ ULt(ReadNeighbor(input, p, d), CAP)

\* a variant with a non-strict gradient: an equal neighbour is eligible
EligibleNotStrict(input, p, d) ==
    /\ Neighbor(p, d) # -1
    /\ ~ULt(input[p], ReadNeighbor(input, p, d))
    /\ ULt(ReadNeighbor(input, p, d), CAP)

\* a variant with the gradient reversed: a higher neighbour is eligible
EligibleUphill(input, p, d) ==
    /\ Neighbor(p, d) # -1
    /\ ULt(input[p], ReadNeighbor(input, p, d))
    /\ ULt(ReadNeighbor(input, p, d), CAP)

\* R2 and R4 on the pre-step values; a direction beyond a face is never chosen
Eligible(input, p, d) ==
    /\ Neighbor(p, d) # -1
    /\ ULt(ReadNeighbor(input, p, d), input[p])
    /\ ULt(ReadNeighbor(input, p, d), CAP)

\* R1 and R3: the first eligible direction of the permutation, or -1
ChosenDir(input, p, step) ==
    IF \E k \in 0..5 : Eligible(input, p, Perm(p, step, k))
    THEN LET k0 == CHOOSE k \in 0..5 :
                     /\ Eligible(input, p, Perm(p, step, k))
                     /\ \A j \in 0..(k - 1) : ~Eligible(input, p, Perm(p, step, j))
         IN  Perm(p, step, k0)
    ELSE -1

\* the site that p's thread emits to, or -1
Target(input, p, step) ==
    IF ChosenDir(input, p, step) = -1 THEN -1
    ELSE Neighbor(p, ChosenDir(input, p, step))

\* a variant whose thread takes two quanta from its own cell
AtomicSubTwo(buf, p) == [buf EXCEPT ![p] = WrapSub(@, 2)]

AtomicSub(buf, p) == [buf EXCEPT ![p] = WrapSub(@, 1)]
AtomicAdd(buf, p) == [buf EXCEPT ![p] = WrapAdd(@, 1)]

(***************************************************************************)
(* Buffers.                                                                *)
(***************************************************************************)
\* the buffer selected by the parity of the step counter
ActiveBuffer(n) == IF n % 2 = 0 THEN "A" ELSE "B"
\* a variant that always reads energy_buffer_a
InputBufferAlwaysA(n) == "A"

InputBuffer(n) == IF n % 2 = 0 THEN "A" ELSE "B"
\* a variant that updates in place: the output is the input buffer
OutputBufferInPlace(n) == IF n % 2 = 0 THEN "A" ELSE "B"
OutputBuffer(n) == IF n % 2 = 0 THEN "B" ELSE "A"

\* a variant that always hands out energy_buffer_a
GetEnergyBufferAlwaysA == "A"
\* get_energy_buffer: the buffer handed to the renderer
GetEnergyBuffer == IF step_count % 2 = 0 THEN "A" ELSE "B"

Buf(name) == IF name = "A" THEN energy_buffer_a ELSE energy_buffer_b

RECURSIVE SumTo(_, _)
SumTo(buf, n) == IF n = 0 THEN 0 ELSE WrapAdd(SumTo(buf, n - 1), buf[n - 1])
\* energy_data.iter().sum() over u32
SumU32(buf) == SumTo(buf, total_sites)

Zeros == [p \in Sites |-> 0]

(***************************************************************************)
(* Device commands.                                                        *)
(***************************************************************************)
Cmd(kind, src, dst, data, step) ==
    [kind |-> kind, src |-> src, dst |-> dst, data |-> data, step |-> step]

WriteParams(step) == Cmd("write_params", "-", "-", Zeros, step)
WriteBuffer(dst, data) == Cmd("write_buffer", "-", dst, data, 0)
CopyPass(src, dst) == Cmd("copy_pass", src, dst, Zeros, 0)
PropagatePass(src, dst) == Cmd("propagate_pass", src, dst, Zeros, 0)
CopyToStaging(src) == Cmd("copy_to_staging", src, "-", Zeros, 0)

\* a variant that never submits the copy pass
StepCommandsNoCopy(n) ==
    << WriteParams(n),
       PropagatePass(InputBuffer(n), OutputBuffer(n)) >>

\* a variant that submits the propagate pass before the copy pass
StepCommandsPropagateFirst(n) ==
    << WriteParams(n),
       PropagatePass(InputBuffer(n), OutputBuffer(n)),
       CopyPass(InputBuffer(n), OutputBuffer(n)) >>

\* a variant that writes the parameter block after submitting the two passes
StepCommandsParamsLast(n) ==
    << CopyPass(InputBuffer(n), OutputBuffer(n)),
       PropagatePass(InputBuffer(n), OutputBuffer(n)),
       WriteParams(n) >>

\* what one propagate_energy call puts on the queue, in submission order
StepCommands(n) ==
    << WriteParams(n),
       CopyPass(InputBuffer(n), OutputBuffer(n)),
       PropagatePass(InputBuffer(n), OutputBuffer(n)) >>

HeadIs(kind) == queue # <<>> /\ Head(queue).kind = kind

HeadIsDispatch == HeadIs("copy_pass") \/ HeadIs("propagate_pass")

\* a variant that rounds the workgroup counts down
GroupsFloor(n) == n \div WORKGROUP

\* a dispatch of ceil(W/4) x ceil(H/4) x ceil(D/4) workgroups of 4x4x4 threads
Groups(n) == (n + WORKGROUP - 1) \div WORKGROUP
GridThreads == (Groups(width) * WORKGROUP) * (Groups(height) * WORKGROUP)
               * (Groups(depth) * WORKGROUP)

\* site p has a thread in the dispatched grid
Covered(p) ==
    /\ XOf(p) < Groups(width) * WORKGROUP
    /\ YOf(p) < Groups(height) * WORKGROUP
    /\ ZOf(p) < Groups(depth) * WORKGROUP

\* thread positions: 0 = not started, 1 = between its two atomics, 2 = returned
Fresh == [p \in Sites |-> 0]
AllDone ==
    /\ oob_done \/ GridThreads <= total_sites
    /\ \A p \in Sites : Covered(p) => tpc[p] = 2

\* get_total_energy is remembered together with the operation it follows
Remember(entry) ==
    IF history = <<>> THEN <<entry>> ELSE <<history[Len(history)], entry>>

NoCall == [x |-> 0, y |-> 0, z |-> 0, quanta |-> 0]

\* a completed host operation: its name and arguments, the step counter and
\* the contents of the active buffer when it was made, the total it returned
Entry(op, c, before, steps) ==
    [op |-> op, x |-> c.x, y |-> c.y, z |-> c.z, quanta |-> c.quanta,
     before |-> before, steps |-> steps, total |-> 0]

(***************************************************************************)
(* Device: executes the queue in order.                                    *)
(***************************************************************************)
hostVars == <<width, height, depth, total_sites, overflow_checks, limits, step_count,
              host, injections, history, field0>>

SetBuf(name, val) ==
    /\ energy_buffer_a' = IF name = "A" THEN val ELSE energy_buffer_a
    /\ energy_buffer_b' = IF name = "B" THEN val ELSE energy_buffer_b

DevWriteParams ==
    /\ HeadIs("write_params")
    /\ params_buffer' = Head(queue).step
    /\ queue' = Tail(queue)
    /\ UNCHANGED <<hostVars, energy_buffer_a, energy_buffer_b, staging_buffer,
                   staging_state, tpc, oob_done>>

DevWriteBuffer ==
    /\ HeadIs("write_buffer")
    /\ SetBuf(Head(queue).dst, Head(queue).data)
    /\ queue' = Tail(queue)
    /\ UNCHANGED <<hostVars, params_buffer, staging_buffer, staging_state,
                   tpc, oob_done>>

\* Pass 1, thread of site p: output[p] = input[p]
DevCopyThread(p) ==
    /\ HeadIs("copy_pass")
    /\ Covered(p)
    /\ tpc[p] = 0
    /\ SetBuf(Head(queue).dst,
              [Buf(Head(queue).dst) EXCEPT ![p] = Buf(Head(queue).src)[p]])
    /\ tpc' = [tpc EXCEPT ![p] = 2]
    /\ UNCHANGED <<hostVars, params_buffer, staging_buffer, staging_state,
                   queue, oob_done>>

\* the threads of the grid that lie outside the lattice return at once
DevOutOfRange ==
    /\ HeadIsDispatch
    /\ ~oob_done
    /\ GridThreads > total_sites
    /\ oob_done' = TRUE
    /\ UNCHANGED <<hostVars, energy_buffer_a, energy_buffer_b, params_buffer,
                   staging_buffer, staging_state, queue, tpc>>

\* Pass 2, thread of site p with no eligible direction: emits nothing
DevPropagateIdle(p) ==
    /\ HeadIs("propagate_pass")
    /\ Covered(p)
    /\ tpc[p] = 0
    /\ Target(Buf(Head(queue).src), p, params_buffer) = -1
    /\ tpc' = [tpc EXCEPT ![p] = 2]
    /\ UNCHANGED <<hostVars, energy_buffer_a, energy_buffer_b, params_buffer,
                   staging_buffer, staging_state, queue, oob_done>>

\* Pass 2, thread of site p: atomic_subtract(output[p], 1)
DevPropagateSub(p) ==
    /\ HeadIs("propagate_pass")
    /\ Covered(p)
    /\ tpc[p] = 0
    /\ Target(Buf(Head(queue).src), p, params_buffer) # -1
    /\ SetBuf(Head(queue).dst, AtomicSub(Buf(Head(queue).dst), p))
    /\ tpc' = [tpc EXCEPT ![p] = 1]
    /\ UNCHANGED <<hostVars, params_buffer, staging_buffer, staging_state,
                   queue, oob_done>>

\* Pass 2, thread of site p: atomic_add(output[neighbor], 1)
DevPropagateAdd(p) ==
    /\ HeadIs("propagate_pass")
    /\ tpc[p] = 1
    /\ SetBuf(Head(queue).dst,
              AtomicAdd(Buf(Head(queue).dst),
                        Target(Buf(Head(queue).src), p, params_buffer)))
    /\ tpc' = [tpc EXCEPT ![p] = 2]
    /\ UNCHANGED <<hostVars, params_buffer, staging_buffer, staging_state,
                   queue, oob_done>>

\* the dispatch at the head of the queue has run all its threads
DevRetire ==
    /\ HeadIsDispatch
    /\ AllDone
    /\ queue' = Tail(queue)
    /\ tpc' = Fresh
    /\ oob_done' = FALSE
    /\ UNCHANGED <<hostVars, energy_buffer_a, energy_buffer_b, params_buffer,
                   staging_buffer, staging_state>>

\* copy_buffer_to_buffer(active, staging)
DevCopyToStaging ==
    /\ HeadIs("copy_to_staging")
    /\ staging_buffer' = Buf(Head(queue).src)
    /\ queue' = Tail(queue)
    /\ UNCHANGED <<hostVars, energy_buffer_a, energy_buffer_b, params_buffer,
                   staging_state, tpc, oob_done>>

\* a variant in which the mapping resolves without waiting for the queue
DevResolveMapEarly ==
    /\ staging_state = "pending"
    /\ staging_state' = "mapped"
    /\ UNCHANGED <<hostVars, energy_buffer_a, energy_buffer_b, params_buffer,
                   staging_buffer, queue, tpc, oob_done>>

\* device.poll(Wait): all submitted work is done, the map_async callback fires
DevResolveMap ==
    /\ staging_state = "pending"
    /\ queue = <<>>
    /\ staging_state' = "mapped"
    /\ UNCHANGED <<hostVars, energy_buffer_a, energy_buffer_b, params_buffer,
                   staging_buffer, queue, tpc, oob_done>>

(***************************************************************************)
(* Host: the public operations of DiscreteLatticeGPU.                      *)
(***************************************************************************)
devVars == <<energy_buffer_a, energy_buffer_b, params_buffer, staging_buffer,
             tpc, oob_done>>
dimVars == <<width, height, depth, total_sites, overflow_checks, limits, field0>>

\* the injected quantities tried: within the cap, above it, and the largest word
Quanta == {1, 2, 3, 10, MAX_U32}


\* a variant that zero-writes energy_buffer_a only
InitializeVacuumOnlyA ==
    /\ host = "idle"
    /\ Len(queue) + 1 <= MaxQueue
    /\ queue' = Append(queue, WriteBuffer("A", Zeros))
    /\ history' = <<Entry("initialize_vacuum", NoCall, Zeros, step_count)>>
    /\ UNCHANGED <<dimVars, devVars, staging_state, step_count, host, injections>>

\* a variant of initialize_vacuum that also resets the step counter
InitializeVacuumResetsCounter ==
    /\ host = "idle"
    /\ Len(queue) + 2 <= MaxQueue
    /\ queue' = queue \o <<WriteBuffer("A", Zeros), WriteBuffer("B", Zeros)>>
    /\ step_count' = 0
    /\ history' = <<Entry("initialize_vacuum", NoCall, Zeros, step_count)>>
    /\ UNCHANGED <<dimVars, devVars, staging_state, host, injections>>

\* zero-writes both energy buffers
InitializeVacuum ==
    /\ host = "idle"
    /\ Len(queue) + 2 <= MaxQueue
    /\ queue' = queue \o <<WriteBuffer("A", Zeros), WriteBuffer("B", Zeros)>>
    /\ history' = <<Entry("initialize_vacuum", NoCall, Zeros, step_count)>>
    /\ UNCHANGED <<dimVars, devVars, staging_state, step_count, host, injections>>

PropagateEnergy ==
    /\ host = "idle"
    /\ step_count < MaxSteps
    /\ Len(queue) + 3 <= MaxQueue
    /\ queue' = queue \o StepCommands(step_count)
    /\ step_count' = WrapAdd(step_count, 1)
    /\ history' = <<Entry("propagate_energy", NoCall, Zeros, step_count)>>
    /\ UNCHANGED <<dimVars, devVars, staging_state, host, injections>>

\* a variant of get_total_energy that never requests the mapping
GetTotalEnergyCallNoMap ==
    /\ host = "idle"
    /\ queue' = Append(queue, CopyToStaging(ActiveBuffer(step_count)))
    /\ host' = "get_total_energy"
    /\ UNCHANGED <<dimVars, devVars, staging_state, step_count, injections, history>>

\* get_total_energy up to the point where it blocks on the device
GetTotalEnergyCall ==
    /\ host = "idle"
    /\ queue' = Append(queue, CopyToStaging(ActiveBuffer(step_count)))
    /\ staging_state' = "pending"
    /\ host' = "get_total_energy"
    /\ UNCHANGED <<dimVars, devVars, step_count, injections, history>>

\* some partial sum of iter().sum() does not fit in 32 bits
RECURSIVE SumOverflows(_, _)
SumOverflows(buf, n) ==
    IF n = 0 THEN FALSE
    ELSE \/ SumOverflows(buf, n - 1)
         \/ AddOverflows(SumTo(buf, n - 1), buf[n - 1])

\* a variant of get_total_energy that returns without unmapping
GetTotalEnergyReturnNoUnmap ==
    /\ host = "get_total_energy"
    /\ staging_state = "mapped"
    /\ host' = "idle"
    /\ history' = Remember(
           [Entry("get_total_energy", NoCall, Zeros, step_count)
               EXCEPT !.total = SumU32(staging_buffer)])
    /\ UNCHANGED <<dimVars, devVars, staging_state, queue, step_count, injections>>

\* get_total_energy from the point where the staging buffer is mapped.
\* The sum is taken while the buffer is mapped: a sum that panics leaves it
\* mapped; otherwise the buffer is unmapped before the total is returned.
GetTotalEnergyReturn ==
    /\ host = "get_total_energy"
    /\ staging_state = "mapped"
    /\ staging_buffer' = Zeros
    /\ IF overflow_checks /\ SumOverflows(staging_buffer, total_sites)
       THEN /\ host' = "panicked"
            /\ UNCHANGED <<history, staging_state>>
       ELSE /\ host' = "idle"
            /\ staging_state' = "unmapped"
            /\ history' = Remember(
                   [Entry("get_total_energy", NoCall, Zeros, step_count)
                       EXCEPT !.total = SumU32(staging_buffer)])
    /\ UNCHANGED <<dimVars, energy_buffer_a, energy_buffer_b, params_buffer,
                   tpc, oob_done, queue, step_count, injections>>

\* add_energy_quantum up to the point where it blocks on the device:
\* the read-back is always taken from energy_buffer_a.  The arguments are
\* first used after the read-back (idx is a pure function of them), so they
\* are drawn in AddEnergyQuantumReturn.
AddEnergyQuantumCall ==
    /\ host = "idle"
    /\ injections < MaxInject
    /\ injections' = injections + 1
    /\ queue' = Append(queue, CopyToStaging("A"))
    /\ staging_state' = "pending"
    /\ host' = "add_energy_quantum"
    /\ UNCHANGED <<dimVars, devVars, step_count, history>>

\* energy_data[idx] = (energy_data[idx] + quanta).min(3)
Saturate(cell, quanta) == UMin(WrapAdd(cell, quanta), CAP)

\* add_energy_quantum from the point where the staging buffer is mapped:
\* modify the copy, write it back to energy_buffer_a
\* A slice index past the end and, in a build with overflow checks, a sum
\* that does not fit in u32 panic; history then keeps the failed call.
AddEnergyQuantumReturn(x, y, z, quanta) ==
    /\ host = "add_energy_quantum"
    /\ staging_state = "mapped"
    /\ staging_state' = "unmapped"
    /\ staging_buffer' = Zeros
    /\ history' = <<Entry("add_energy_quantum",
                       [x |-> x, y |-> y, z |-> z, quanta |-> quanta],
                       Buf(ActiveBuffer(step_count)), step_count)>>
    /\ LET idx == Index(x, y, z)
       IN  IF \/ ~(idx \in Sites)
              \/ overflow_checks /\ AddOverflows(staging_buffer[idx], quanta)
           THEN /\ host' = "panicked"
                /\ UNCHANGED queue
           ELSE /\ host' = "idle"
                /\ queue' = Append(queue,
                       WriteBuffer("A", [staging_buffer EXCEPT
                           ![idx] = Saturate(staging_buffer[idx], quanta)]))
    /\ UNCHANGED <<dimVars, energy_buffer_a, energy_buffer_b, params_buffer,
                   tpc, oob_done, step_count, injections>>

(***************************************************************************)
(* Lattices and initial states.                                            *)
(***************************************************************************)
\* limits of the adapters the constructor was written against
MAX_BINDING_2GB == 2147483647          \* 2 GB - 1 byte
DEFAULT_MAX_BINDING == 134217728       \* 128 MiB
DEFAULT_MAX_BUFFER == 268435456        \* 256 MiB

LavapipeLimits ==
    [max_storage_buffer_binding_size |-> MAX_BINDING_2GB,
     max_buffer_size |-> MAX_BINDING_2GB]
DefaultLimits ==
    [max_storage_buffer_binding_size |-> DEFAULT_MAX_BINDING,
     max_buffer_size |-> DEFAULT_MAX_BUFFER]
AdapterLimits == {LavapipeLimits, DefaultLimits}

Dims == {d \in (1..MaxSites) \X (1..MaxSites) \X (1..MaxSites) :
            d[1] * d[2] * d[3] <= MaxSites}

\* total_sites = (width * height * depth) as usize, the product taken in u32
SiteCount(d) == WrapMul(WrapMul(d[1], d[2]), d[3])

\* the state new(W, H, D) returns: zeroed buffers, step counter 0
New(d, checks) ==
    /\ width = d[1] /\ height = d[2] /\ depth = d[3]
    /\ total_sites = SiteCount(d)
    /\ overflow_checks = checks
    /\ limits = LavapipeLimits
    /\ step_count = 0
    /\ params_buffer = 0
    /\ energy_buffer_b = [p \in 0 .. (SiteCount(d) - 1) |-> 0]
    /\ staging_buffer = [p \in 0 .. (SiteCount(d) - 1) |-> 0]
    /\ staging_state = "unmapped"
    /\ queue = <<>>
    /\ tpc = [p \in 0 .. (SiteCount(d) - 1) |-> 0]
    /\ oob_done = FALSE
    /\ host = "idle"
    /\ injections = 0
    /\ history = <<>>

Device ==
    \/ DevWriteParams
    \/ DevOutOfRange
    \/ \E p \in Sites : DevCopyThread(p)
    \/ \E p \in Sites : DevPropagateIdle(p)
    \/ \E p \in Sites : DevPropagateSub(p)
    \/ \E p \in Sites : DevPropagateAdd(p)
    \/ DevRetire
    \/ DevCopyToStaging
    \/ DevResolveMap

(***************************************************************************)
(* Propagation from an arbitrary field: the lattice has been filled at     *)
(* step 0 (every such field is reached by injections into a vacuum), then  *)
(* only propagate_energy and get_total_energy are called.                  *)
(***************************************************************************)
InitField ==
    \E d \in Dims :
        /\ New(d, FALSE)
        /\ field0 \in [0 .. (SiteCount(d) - 1) -> 0..CAP]
        /\ energy_buffer_a = field0

NextField ==
    \/ PropagateEnergy
    \/ GetTotalEnergyCall
    \/ GetTotalEnergyReturn
    \/ Device

SpecField == InitField /\ [][NextField]_vars

(***************************************************************************)
(* The whole simulator, from construction.                                 *)
(***************************************************************************)
Init ==
    \E d \in Dims, checks \in BOOLEAN :
        /\ New(d, checks)
        /\ field0 = [p \in 0 .. (SiteCount(d) - 1) |-> 0]
        /\ energy_buffer_a = field0

Next ==
    \/ InitializeVacuum
    \/ AddEnergyQuantumCall
    \/ \E x \in 0..width, y \in 0..height, z \in 0..depth, q \in Quanta :
           AddEnergyQuantumReturn(x, y, z, q)
    \/ PropagateEnergy
    \/ GetTotalEnergyCall
    \/ GetTotalEnergyReturn
    \/ DevWriteBuffer
    \/ Device

Spec == Init /\ [][Next]_vars

(***************************************************************************)
(* Progress.  The device executes what has been submitted: while the queue *)
(* is not empty one of its threads or commands takes a step, and           *)
(* device.poll(Wait) returns once the queue is drained.  A blocked         *)
(* get_total_energy resumes when its mapping has resolved.  Nothing makes  *)
(* the host issue another call.                                            *)
(***************************************************************************)
\* rows of 1..MaxSites sites, each site empty or full at step 0
InitLive ==
    \E w \in 1..MaxSites :
        /\ New(<<w, 1, 1>>, FALSE)
        /\ field0 \in [0 .. (w - 1) -> {0, CAP}]
        /\ energy_buffer_a = field0

SpecLive ==
    /\ InitLive
    /\ [][NextField]_vars
    /\ WF_vars(Device)
    /\ WF_vars(GetTotalEnergyReturn)

(***************************************************************************)
(* Construction.  new(W, H, D) makes no comparison of its own: the site    *)
(* count is the u32 product of the dimensions (a build with overflow       *)
(* checks panics when it does not fit, any other build wraps), and the     *)
(* three buffers of 4 * total_sites bytes are created by the device, which *)
(* refuses a buffer larger than the max_buffer_size it was requested with. *)
(***************************************************************************)
\* the word 2^31 + 1
WIDE == 0 - 2147483647

\* the shapes tried by new: the small lattices, one of 2^30 sites, and two
\* whose site count does not fit in 32 bits
NewShapes == Dims \cup {<<1024, 1024, 1024>>, <<WIDE, 2, 1>>, <<WIDE, 1, 2>>}

\* 4 * n bytes is more than max bytes (n a word, max below 2^31)
BytesExceed(n, max) == ULt(max \div 4, n)

\* new panics: overflow in width * height * depth, or a buffer is refused
NewRejects(d) ==
    \/ overflow_checks /\ MulOverflows(d[1], d[2])
    \/ overflow_checks /\ MulOverflows(WrapMul(d[1], d[2]), d[3])
    \/ BytesExceed(SiteCount(d), limits.max_buffer_size)

NewCall(d) ==
    /\ host = "new"
    /\ history' = <<Entry("new", [x |-> d[1], y |-> d[2], z |-> d[3], quanta |-> 0],
                          <<>>, 0)>>
    /\ IF NewRejects(d)
       THEN /\ host' = "panicked"
            /\ UNCHANGED <<width, height, depth, total_sites, energy_buffer_a,
                           energy_buffer_b, staging_buffer, tpc, field0>>
       ELSE /\ host' = "idle"
            /\ width' = d[1] /\ height' = d[2] /\ depth' = d[3]
            /\ total_sites' = SiteCount(d)
            /\ energy_buffer_a' = [p \in 0 .. (SiteCount(d) - 1) |-> 0]
            /\ energy_buffer_b' = [p \in 0 .. (SiteCount(d) - 1) |-> 0]
            /\ staging_buffer' = [p \in 0 .. (SiteCount(d) - 1) |-> 0]
            /\ tpc' = [p \in 0 .. (SiteCount(d) - 1) |-> 0]
            /\ field0' = [p \in 0 .. (SiteCount(d) - 1) |-> 0]
    /\ UNCHANGED <<overflow_checks, limits, step_count, params_buffer,
                   staging_state, queue, oob_done, injections>>

\* before new has returned there is no instance
InitNew ==
    /\ host = "new"
    /\ overflow_checks \in BOOLEAN
    /\ limits \in AdapterLimits
    /\ width = 0 /\ height = 0 /\ depth = 0 /\ total_sites = 0
    /\ step_count = 0
    /\ params_buffer = 0
    /\ energy_buffer_a = <<>> /\ energy_buffer_b = <<>> /\ staging_buffer = <<>>
    /\ staging_state = "unmapped"
    /\ queue = <<>>
    /\ tpc = <<>>
    /\ oob_done = FALSE
    /\ injections = 0
    /\ history = <<>>
    /\ field0 = <<>>

\* construction followed by the operations that need no dispatch
NextNew ==
    \/ \E d \in NewShapes : NewCall(d)
    \/ InitializeVacuum
    \/ GetTotalEnergyCall
    \/ GetTotalEnergyReturn
    \/ DevWriteBuffer
    \/ DevCopyToStaging
    \/ DevResolveMap

SpecNew == InitNew /\ [][NextNew]_vars

(***************************************************************************)
(* Propagation on wider lattices.  The threads of one dispatch commute     *)
(* (C6, C15), so here the device runs each dispatch in one step; this      *)
(* reaches two-dimensional lattices of up to six sites, where a site has   *)
(* up to three neighbours.                                                 *)
(***************************************************************************)
MaxWidthWide == 3
MaxHeightWide == 2

DimsWide == (1..MaxWidthWide) \X (1..MaxHeightWide) \X {1}

\* Pass 1, all threads: output = input
DevRunCopyPass ==
    /\ HeadIs("copy_pass")
    /\ tpc = Fresh
    /\ SetBuf(Head(queue).dst,
              [p \in Sites |-> IF Covered(p) THEN Buf(Head(queue).src)[p]
                               ELSE Buf(Head(queue).dst)[p]])
    /\ tpc' = [p \in Sites |-> 2]
    /\ oob_done' = TRUE
    /\ UNCHANGED <<hostVars, params_buffer, staging_buffer, staging_state, queue>>

\* Pass 2, all threads: every emitting site's subtract and add
DevRunPropagatePass ==
    /\ HeadIs("propagate_pass")
    /\ tpc = Fresh
    /\ SetBuf(Head(queue).dst,
              [p \in Sites |->
                  WrapAdd(WrapSub(Buf(Head(queue).dst)[p],
                                  IF /\ Covered(p)
                                     /\ Target(Buf(Head(queue).src), p, params_buffer) # -1
                                  THEN 1 ELSE 0),
                          Cardinality({s \in Sites :
                              /\ Covered(s)
                              /\ Target(Buf(Head(queue).src), s, params_buffer) = p}))])
    /\ tpc' = [p \in Sites |-> 2]
    /\ oob_done' = TRUE
    /\ UNCHANGED <<hostVars, params_buffer, staging_buffer, staging_state, queue>>

InitWide ==
    \E d \in DimsWide :
        /\ New(d, FALSE)
        /\ field0 \in [0 .. (SiteCount(d) - 1) -> 0..CAP]
        /\ energy_buffer_a = field0

NextWide ==
    \/ PropagateEnergy
    \/ DevWriteParams
    \/ DevRunCopyPass
    \/ DevRunPropagatePass
    \/ DevRetire

SpecWide == InitWide /\ [][NextWide]_vars

(***************************************************************************)
(* Vocabulary of the properties.                                           *)
(***************************************************************************)
Last == history[Len(history)]
LastOp(op) == history # <<>> /\ Last.op = op
\* the last operation is get_total_energy and it directly follows an op
TotalAfter(op) == Len(history) = 2 /\ history[1].op = op /\ Last.op = "get_total_energy"

Active == Buf(ActiveBuffer(step_count))

\* Pass 2 of the step at the head of the queue has run all its threads
StepCompleted == HeadIs("propagate_pass") /\ AllDone
StepInput == Buf(Head(queue).src)
StepOutput == Buf(Head(queue).dst)

\* one step computed site by site: own emission out, neighbours' emissions in
StepResult(input, step) ==
    [p \in Sites |->
        WrapAdd(WrapSub(input[p], IF Target(input, p, step) = -1 THEN 0 ELSE 1),
                Cardinality({s \in Sites : Target(input, s, step) = p}))]

\* the field after steps k, k+1, ..., n-1 applied to f
RECURSIVE RunFrom(_, _, _)
RunFrom(f, k, n) ==
    IF k >= n THEN f
    ELSE LET g == StepResult(f, k)
         IN  IF g = g THEN RunFrom(g, k + 1, n) ELSE f   \* g is evaluated once

Abs(i) == IF i < 0 THEN 0 - i ELSE i
Max3(a, b, c) == IF a >= b /\ a >= c THEN a ELSE IF b >= c THEN b ELSE c
Chebyshev(p, s) ==
    Max3(Abs(XOf(p) - XOf(s)), Abs(YOf(p) - YOf(s)), Abs(ZOf(p) - ZOf(s)))

\* min(cell + q, 3) with the sum taken exactly
SaturateExact(cell, q) == IF AddOverflows(cell, q) THEN CAP ELSE UMin(cell + q, CAP)

LastInBounds == InBounds(Last.x, Last.y, Last.z)
LastIdx == Index(Last.x, Last.y, Last.z)

(***************************************************************************)
(* C1  Conservation.  From any field with sites in 0..3, after any number  *)
(* of propagate_energy calls and under every interleaving of the site      *)
(* threads, get_total_energy returns the sum of the initial field.         *)
(***************************************************************************)
C1_Conservation ==
    LastOp("get_total_energy") => Last.total = SumU32(field0)

\* a total read after two steps that moved energy
C1_Witness ==
    /\ LastOp("get_total_energy")
    /\ Last.steps >= 2
    /\ Last.total = 5
    /\ Active # field0

(***************************************************************************)
(* C2  Cap.  After each completed step every site holds at most 3.         *)
(* Stated as the claim; rules R1-R4 let two neighbours emit into the same  *)
(* site.                                                                   *)
(***************************************************************************)
C2_Cap ==
    StepCompleted => \A p \in Sites : ~ULt(CAP, StepOutput[p])

(***************************************************************************)
(* C3  Active-buffer injection.  A get_total_energy made right after an    *)
(* in-bounds add_energy_quantum (whose sum fits in u32) returns the total  *)
(* of the active buffer before the injection plus min(cell + q, 3) - cell. *)
(* Stated as the claim; the code always injects into energy_buffer_a.      *)
(***************************************************************************)
C3_InjectionSeenByTotal ==
    ( /\ TotalAfter("add_energy_quantum")
      /\ InBounds(history[1].x, history[1].y, history[1].z)
      /\ ~AddOverflows(history[1].before[Index(history[1].x, history[1].y, history[1].z)],
                       history[1].quanta) )
    => LET a == history[1]
           cell == a.before[Index(a.x, a.y, a.z)]
       IN  Last.total =
              WrapSub(WrapAdd(SumU32(a.before), SaturateExact(cell, a.quanta)), cell)

(***************************************************************************)
(* C4  Injection.  An in-bounds add_energy_quantum sets site               *)
(* z*W*H + y*W + x of the field to min(old + q, 3) and leaves the other    *)
(* sites and the step counter unchanged.  Stated as the claim, for the     *)
(* field in the active buffer and every u32 q.                             *)
(***************************************************************************)
C4_Injection ==
    ( /\ history # <<>>
      /\ Len(history) = 1
      /\ Last.op = "add_energy_quantum"
      /\ LastInBounds
      /\ queue = <<>> )
    => /\ Active = [Last.before EXCEPT
                       ![LastIdx] = SaturateExact(Last.before[LastIdx], Last.quanta)]
       /\ step_count = Last.steps

(***************************************************************************)
(* C5  Out-of-bounds injection.  add_energy_quantum with x >= W or y >= H  *)
(* or z >= D is rejected and writes no site.  Stated as the claim; the     *)
(* code checks only the linear index against the slice length.             *)
(***************************************************************************)
C5_OutOfBoundsRejected ==
    ( /\ history # <<>>
      /\ Len(history) = 1
      /\ Last.op = "add_energy_quantum"
      /\ ~LastInBounds )
    => /\ host = "panicked"
       /\ \A i \in 1..Len(queue) : queue[i].kind # "write_buffer"
       /\ Active = Last.before

(***************************************************************************)
(* C6  Determinism.  Whatever order the site threads and their atomic      *)
(* operations take, once the device is idle the active buffer holds the    *)
(* field that the initial field and the number of steps determine.         *)
(***************************************************************************)
C6_Determinism ==
    queue = <<>> => Active = RunFrom(field0, 0, step_count)

\* two steps done, with two threads emitting in the same pass
C6_Witness ==
    /\ queue = <<>>
    /\ step_count >= 2
    /\ Cardinality({p \in Sites : Target(field0, p, 0) # -1}) >= 2
    /\ Active # field0

(***************************************************************************)
(* C7  Vacuum stability.  As long as nothing has been injected, every site *)
(* of both buffers is 0 whatever resets and steps were made, and           *)
(* get_total_energy returns 0.                                             *)
(***************************************************************************)
C7_VacuumStable ==
    injections = 0 =>
        /\ energy_buffer_a = Zeros
        /\ energy_buffer_b = Zeros
        /\ LastOp("get_total_energy") => Last.total = 0

\* a total read after steps on the vacuum
C7_Witness ==
    /\ injections = 0
    /\ TotalAfter("propagate_energy")
    /\ Last.steps >= 2
    /\ total_sites >= 2

(***************************************************************************)
(* C8  Reset.  Once the writes of initialize_vacuum have been executed,    *)
(* both energy buffers are 0 at every site, whichever buffer is active,    *)
(* and a get_total_energy right after the reset returns 0.                 *)
(***************************************************************************)
C8_ResetZeroesBoth ==
    /\ (LastOp("initialize_vacuum") /\ queue = <<>>) =>
           (energy_buffer_a = Zeros /\ energy_buffer_b = Zeros)
    /\ TotalAfter("initialize_vacuum") =>
           (Last.total = 0 /\ energy_buffer_a = Zeros /\ energy_buffer_b = Zeros)

\* a reset made after an injection and an odd number of steps, then a total
C8_Witness ==
    /\ TotalAfter("initialize_vacuum")
    /\ history[1].steps % 2 = 1
    /\ injections > 0

(***************************************************************************)
(* C9  Uniform fields.  A field whose sites all hold the same value is a   *)
(* fixed point: every completed step leaves its output equal to it.        *)
(***************************************************************************)
Uniform(f) == \A p, s \in DOMAIN f : f[p] = f[s]

C9_UniformFixedPoint ==
    Uniform(field0) =>
        /\ StepCompleted => StepOutput = field0
        /\ queue = <<>> => Active = field0

\* the all-3 field on a three-site lattice after two steps
C9_Witness ==
    /\ total_sites = 3
    /\ field0 = [p \in Sites |-> CAP]
    /\ step_count >= 2
    /\ queue = <<>>

(***************************************************************************)
(* C10  Locality.  After one step every site that changed lies within      *)
(* Chebyshev distance 1 of a site that was non-zero before the step.       *)
(***************************************************************************)
C10_Locality ==
    StepCompleted =>
        \A p \in Sites :
            StepOutput[p] # StepInput[p] =>
                \E s \in Sites : Chebyshev(p, s) <= 1 /\ StepInput[s] # 0

\* a step that changed some site while another site had only zeros around it
C10_Witness ==
    /\ StepCompleted
    /\ \E p \in Sites : StepOutput[p] # StepInput[p]
    /\ \E p \in Sites : \A s \in Sites : Chebyshev(p, s) <= 1 => StepInput[s] = 0

(***************************************************************************)
(* C11  Active buffer.  get_energy_buffer returns energy_buffer_a before   *)
(* any step; each propagate_energy call reads the buffer it returned just  *)
(* before the call and makes it return the buffer that call writes; and    *)
(* each get_total_energy call copies the buffer it returns at that moment. *)
(***************************************************************************)
C11_ActiveBuffer ==
    [][ /\ step_count = 0 => GetEnergyBuffer = "A"
        /\ step_count' # step_count =>
              /\ queue'[Len(queue')].kind = "propagate_pass"
              /\ queue'[Len(queue')].src = GetEnergyBuffer
              /\ queue'[Len(queue')].dst = GetEnergyBuffer'
              /\ GetEnergyBuffer' # GetEnergyBuffer
        /\ step_count' = step_count => GetEnergyBuffer' = GetEnergyBuffer
        /\ (host = "idle" /\ host' = "get_total_energy") =>
              /\ queue'[Len(queue')].kind = "copy_to_staging"
              /\ queue'[Len(queue')].src = GetEnergyBuffer
      ]_vars

\* a total requested after three steps, with the third still queued
C11_Witness ==
    /\ host = "get_total_energy"
    /\ step_count = 3
    /\ Len(queue) >= 2
    /\ queue[Len(queue) - 1].kind = "propagate_pass"
    /\ queue[Len(queue)].src = "B"

(***************************************************************************)
(* C12  Read-back after queued steps.  When get_total_energy has its       *)
(* staging buffer mapped after k propagate_energy calls, the staging       *)
(* buffer holds the field that Pass 2 of step k produced, whatever was     *)
(* still queued when the call was made, and the total returned is the sum  *)
(* of that field.                                                          *)
(***************************************************************************)
C12_ReadbackSeesStep ==
    /\ (host = "get_total_energy" /\ staging_state = "mapped") =>
           staging_buffer = RunFrom(field0, 0, step_count)
    /\ LastOp("get_total_energy") =>
           Last.total = SumU32(RunFrom(field0, 0, Last.steps))

\* a read-back after three steps whose field differs from that of step two
C12_Witness ==
    /\ host = "get_total_energy"
    /\ staging_state = "mapped"
    /\ step_count = 3
    /\ staging_buffer # RunFrom(field0, 0, 2)
    /\ staging_buffer # field0

(***************************************************************************)
(* C13  Oversize construction.  new(W, H, D) fails, leaving no instance,   *)
(* whenever the exact W * H * D * 4 exceeds the device's maximum storage   *)
(* buffer binding size.  Stated as the claim; the code multiplies in u32,  *)
(* so a product that wraps to a small count passes.                        *)
(***************************************************************************)
\* floor(m / d) for 0 <= m < 2^31 and a word d >= 1
UDivSmall(m, d) == IF d < 0 THEN 0 ELSE m \div d

\* the exact W * H * D * 4 is more than the binding size
ExceedsBinding(w, h, d) ==
    ULt(UDivSmall(UDivSmall(limits.max_storage_buffer_binding_size \div 4, d), h), w)

C13_OversizeFails ==
    /\ (LastOp("new") /\ ExceedsBinding(Last.x, Last.y, Last.z)) => host = "panicked"
    /\ host \in {"idle", "get_total_energy"} => ~ExceedsBinding(width, height, depth)

(***************************************************************************)
(* C14  Injection is total in q.  For every in-bounds site and every u32   *)
(* q, add_energy_quantum returns normally and the site ends at             *)
(* min(old + q, 3) with the sum taken exactly.  Stated as the claim, for   *)
(* calls made at an even step count (energy_buffer_a is then the active    *)
(* buffer); the code adds in u32.                                          *)
(***************************************************************************)
C14_InjectionTotal ==
    ( /\ history # <<>>
      /\ Len(history) = 1
      /\ Last.op = "add_energy_quantum"
      /\ Last.steps % 2 = 0
      /\ LastInBounds )
    => /\ host # "panicked"
       /\ queue = <<>> =>
              energy_buffer_a[LastIdx] = SaturateExact(Last.before[LastIdx], Last.quanta)

\* the emissions of Pass 2 made so far, site by site: the own decrement of a
\* thread past its subtract, the increments of the threads that returned
\* after an add
Emitted(p) ==
    IF tpc[p] >= 1 /\ Target(StepInput, p, params_buffer) # -1 THEN 1 ELSE 0
Received(p) ==
    Cardinality({s \in Sites : tpc[s] = 2 /\ Target(StepInput, s, params_buffer) = p})

(***************************************************************************)
(* C15  Pass order.  When Pass 2 of a step starts, Pass 1 of that step has *)
(* written every site of the output buffer (output = input), and at every  *)
(* moment of Pass 2 each output cell equals its input value plus the       *)
(* atomic operations made on it so far: no copy lands on top of an         *)
(* increment or decrement.                                                 *)
(***************************************************************************)
C15_PassOrder ==
    HeadIs("propagate_pass") =>
        /\ (\A p \in Sites : tpc[p] = 0) => StepOutput = StepInput
        /\ \A p \in Sites :
               StepOutput[p] =
                   WrapAdd(WrapSub(StepInput[p], Emitted(p)), Received(p))
        /\ \A i \in 2..Len(queue) :
               queue[i].kind = "propagate_pass" => queue[i - 1].kind = "copy_pass"

\* the second step in Pass 2: one thread between its atomics, another returned
\* after emitting, a later step queued behind
C15_Witness ==
    /\ HeadIs("propagate_pass")
    /\ params_buffer = 1
    /\ \E p \in Sites : tpc[p] = 1
    /\ \E p \in Sites : tpc[p] = 2 /\ Target(StepInput, p, params_buffer) # -1
    /\ Len(queue) > 1

(***************************************************************************)
(* C16  At most one emission.  At every moment of Pass 2, and at its end,  *)
(* each output cell is at least its pre-step value minus 1 (a cell that    *)
(* held 0 is never below 0) and has gained at most one quantum per         *)
(* neighbour; at the end of the pass the subtracts and adds are paired:    *)
(* the sum of the output equals the sum of the input.                      *)
(***************************************************************************)
C16_AtMostOneEmission ==
    HeadIs("propagate_pass") =>
        /\ \A p \in Sites :
               /\ WrapSub(StepOutput[p], StepInput[p]) \in (0 - 1)..6
               /\ StepInput[p] = 0 => WrapSub(StepOutput[p], StepInput[p]) >= 0
        /\ AllDone => SumU32(StepOutput) = SumU32(StepInput)

\* a site with two lower neighbours that ended the step one quantum down
C16_Witness ==
    /\ StepCompleted
    /\ \E p \in Sites :
           /\ Cardinality({d \in 0..5 : Eligible(StepInput, p, d)}) >= 2
           /\ StepOutput[p] = StepInput[p] - 1

Manhattan(p, s) == Abs(XOf(p) - XOf(s)) + Abs(YOf(p) - YOf(s)) + Abs(ZOf(p) - ZOf(s))

\* the sites of the lattice next to p along one axis that hold less than p
LowerNeighbors(input, p) ==
    {s \in Sites : Manhattan(p, s) = 1 /\ ULt(input[s], input[p])}

(***************************************************************************)
(* C17  Down-gradient only.  In Pass 2 a thread that has subtracted from   *)
(* its own cell sends the quantum to a site of the lattice next to it      *)
(* whose pre-step value is strictly lower than its own; the thread of a    *)
(* site without such a neighbour, every site at 0 among them, never        *)
(* subtracts: its cell is its pre-step value plus what it received.        *)
(***************************************************************************)
C17_DownGradientOnly ==
    HeadIs("propagate_pass") =>
        \A p \in Sites :
            /\ tpc[p] = 1 =>
                   Target(StepInput, p, params_buffer) \in LowerNeighbors(StepInput, p)
            /\ LowerNeighbors(StepInput, p) = {} =>
                   /\ tpc[p] # 1
                   /\ StepOutput[p] = WrapAdd(StepInput[p], Received(p))
            /\ StepInput[p] = 0 => LowerNeighbors(StepInput, p) = {}

\* one thread between its atomics, a returned thread of a site at 0, and a
\* returned thread of a non-zero site with no lower neighbour
C17_Witness ==
    /\ HeadIs("propagate_pass")
    /\ \E p \in Sites : tpc[p] = 1
    /\ \E p \in Sites : StepInput[p] = 0 /\ tpc[p] = 2
    /\ \E p \in Sites :
           StepInput[p] # 0 /\ LowerNeighbors(StepInput, p) = {} /\ tpc[p] = 2

\* the first direction of the permutation h(p, step) that is eligible under
\* R2 and R4 as written: it leads to a site of the lattice whose value is
\* strictly below p's and below 3; -1 when there is none
FirstEligibleDir(input, p, step) ==
    LET Ok(k) == /\ Neighbor(p, Perm(p, step, k)) # -1
                 /\ ULt(input[Neighbor(p, Perm(p, step, k))], input[p])
                 /\ ULt(input[Neighbor(p, Perm(p, step, k))], CAP)
    IN  IF \E k \in 0..5 : Ok(k)
        THEN Perm(p, step, CHOOSE k \in 0..5 :
                               Ok(k) /\ \A j \in 0..(k - 1) : ~Ok(j))
        ELSE -1

FirstEligibleSite(input, p, step) ==
    IF FirstEligibleDir(input, p, step) = -1 THEN -1
    ELSE Neighbor(p, FirstEligibleDir(input, p, step))

(***************************************************************************)
(* C18  Exactly one emission.  After a completed step every site that had  *)
(* a strictly lower neighbour in the lattice has sent exactly one quantum, *)
(* to the first eligible direction in the order h(p, step_count), and no   *)
(* other site has sent anything.  Stated as the claim; a site that a       *)
(* previous step raised above 3 (see C2) and whose lower neighbours all    *)
(* hold 3 has a lower neighbour and sends nothing.                         *)
(***************************************************************************)
C18_EmitsFirstEligible ==
    StepCompleted =>
        \A p \in Sites :
            /\ LowerNeighbors(StepInput, p) # {} =>
                   /\ FirstEligibleSite(StepInput, p, params_buffer) # -1
                   /\ StepOutput[p] =
                          WrapAdd(WrapSub(StepInput[p], 1),
                                  Cardinality({s \in Sites :
                                      FirstEligibleSite(StepInput, s, params_buffer) = p}))
            /\ LowerNeighbors(StepInput, p) = {} =>
                   StepOutput[p] =
                       WrapAdd(StepInput[p],
                               Cardinality({s \in Sites :
                                   FirstEligibleSite(StepInput, s, params_buffer) = p}))

(***************************************************************************)
(* C19  Absorbing walls.  A thread that has subtracted from its own cell   *)
(* sends the quantum to a site of the lattice exactly one axis step away   *)
(* (never to the opposite face, never outside); a site whose only lower    *)
(* readings are the zeros beyond a face is not decremented; and nothing    *)
(* leaves the lattice: each completed step keeps the sum of the field.     *)
(***************************************************************************)
C19_AbsorbingWalls ==
    HeadIs("propagate_pass") =>
        /\ \A p \in Sites :
               /\ tpc[p] = 1 =>
                      /\ Target(StepInput, p, params_buffer) \in Sites
                      /\ Manhattan(p, Target(StepInput, p, params_buffer)) = 1
               /\ (\A s \in Sites : Manhattan(p, s) = 1 => ~ULt(StepInput[s], StepInput[p]))
                      => WrapSub(StepOutput[p], StepInput[p]) \in 0..6
        /\ AllDone => SumU32(StepOutput) = SumU32(StepInput)

\* a completed step on a one-dimensional lattice of three sites in which the
\* face site 0 held more than its one neighbour, and another face site held
\* a non-zero value with no lower neighbour in the lattice
C19_Witness ==
    /\ StepCompleted
    /\ total_sites = 3
    /\ ULt(StepInput[1], StepInput[0])
    /\ StepOutput[0] = StepInput[0] - 1
    /\ StepInput[2] # 0
    /\ ~ULt(StepInput[1], StepInput[2])
    /\ StepOutput[2] = StepInput[2]

(***************************************************************************)
(* C20  No transient overshoot.  At every moment of Pass 2, whatever the   *)
(* order of the atomic subtracts and adds, every output cell holds at most *)
(* 3.  Stated as the claim; two neighbours at 3 may both add to a cell     *)
(* at 2 (see C2).                                                          *)
(***************************************************************************)
C20_NoTransientOvershoot ==
    HeadIs("propagate_pass") =>
        \A p \in Sites : StepOutput[p] \in 0..CAP

\* the other one of the two energy buffers
OtherBuffer(name) == IF name = "A" THEN "B" ELSE "A"

(***************************************************************************)
(* C21  Ping-pong.  Every dispatch of a step reads one energy buffer and   *)
(* writes the other: A to B when the step index is even, B to A when odd;  *)
(* the buffer a step writes is the buffer the next step reads; and while   *)
(* the two passes of step k run, the input buffer keeps the field it held  *)
(* when the step began (the field after k steps).                          *)
(***************************************************************************)
C21_PingPong ==
    /\ \A i \in 1..Len(queue) :
           queue[i].kind \in {"copy_pass", "propagate_pass"} =>
               queue[i].dst = OtherBuffer(queue[i].src)
    /\ \A i \in 1..Len(queue) :
           (queue[i].kind = "propagate_pass" /\ i + 2 <= Len(queue)) =>
               /\ queue[i + 2].kind = "copy_pass"
               /\ queue[i + 2].src = queue[i].dst
    /\ HeadIsDispatch =>
           /\ Head(queue).src = (IF params_buffer % 2 = 0 THEN "A" ELSE "B")
           /\ StepInput = RunFrom(field0, 0, params_buffer)

\* Pass 2 of an odd step (B to A) finished after moving energy, the next step
\* already queued behind it
C21_Witness ==
    /\ StepCompleted
    /\ params_buffer = 1
    /\ StepOutput # StepInput
    /\ Len(queue) >= 4

(***************************************************************************)
(* C22  Copy pass.  A site whose Pass 1 thread has returned holds its      *)
(* input value in the output buffer; when Pass 1 has run all its threads,  *)
(* and until Pass 2 performs its first operation, output = input at every  *)
(* site, whatever the output buffer held before.  The lattices here all    *)
(* have dimensions that are not multiples of 4: the grid has threads       *)
(* outside the lattice, and the buffers keep exactly the lattice's sites.  *)
(***************************************************************************)
C22_CopyPrimesOutput ==
    /\ HeadIs("copy_pass") =>
           /\ \A p \in Sites : tpc[p] = 2 => StepOutput[p] = StepInput[p]
           /\ AllDone => StepOutput = StepInput
    /\ (HeadIs("propagate_pass") /\ tpc = Fresh) => StepOutput = StepInput
    /\ HeadIsDispatch =>
           /\ GridThreads > total_sites
           /\ \A p \in Sites : Covered(p)
           /\ DOMAIN energy_buffer_a = Sites
           /\ DOMAIN energy_buffer_b = Sites

\* Pass 1 of the third step under way: one site copied, another still holding
\* the stale value left by the first step, the out-of-range threads returned
C22_Witness ==
    /\ HeadIs("copy_pass")
    /\ params_buffer = 2
    /\ oob_done
    /\ \E p \in Sites : tpc[p] = 2
    /\ \E p \in Sites : tpc[p] = 0 /\ StepOutput[p] # StepInput[p]

\* the number of steps whose Pass 2 has not retired yet
PendingSteps == Cardinality({i \in 1..Len(queue) : queue[i].kind = "propagate_pass"})

\* the step that owns the dispatch at the head of the device queue
HeadStep == step_count - PendingSteps

(***************************************************************************)
(* C23  Steps queued without waiting.  While a pass of step k runs, the    *)
(* parameter block holds k, however many later steps the host has already  *)
(* submitted; and from the first read of Pass 1 of step k on, the input    *)
(* buffer holds the complete result of steps 0..k-1.                       *)
(***************************************************************************)
C23_ParamsAndOrder ==
    /\ HeadIsDispatch => params_buffer = HeadStep
    /\ \A i \in 1..Len(queue) :
           queue[i].kind = "write_params" =>
               /\ i + 2 <= Len(queue)
               /\ queue[i + 1].kind = "copy_pass"
               /\ queue[i + 2].kind = "propagate_pass"
               /\ queue[i].step =
                      step_count - Cardinality({j \in i..Len(queue) :
                                                   queue[j].kind = "propagate_pass"})
    /\ (HeadIs("copy_pass") /\ HeadStep > 0) =>
           StepInput = StepResult(RunFrom(field0, 0, HeadStep - 1), HeadStep - 1)

\* Pass 1 of step 1 has started while the host has already submitted step 2
C23_Witness ==
    /\ HeadIs("copy_pass")
    /\ tpc # Fresh
    /\ params_buffer = 1
    /\ step_count = 3
    /\ Len(queue) = 5
    /\ StepInput # field0

\* the staging copies submitted and not yet executed
StagingCopies == {i \in 1..Len(queue) : queue[i].kind = "copy_to_staging"}

(***************************************************************************)
(* C24  One staging transfer at a time.  Between calls the staging buffer  *)
(* is unmapped, so each add_energy_quantum and get_total_energy starts its *)
(* copy into an unmapped buffer and leaves it unmapped when it returns; a  *)
(* mapping is requested or held only inside one of the two calls, and at   *)
(* most one copy into the staging buffer is queued.                        *)
(***************************************************************************)
C24_OneTransfer ==
    /\ host = "idle" => staging_state = "unmapped"
    /\ staging_state # "unmapped" =>
           host \in {"add_energy_quantum", "get_total_energy", "panicked"}
    /\ Cardinality(StagingCopies) <= 1
    /\ StagingCopies # {} =>
           /\ staging_state = "pending"
           /\ StagingCopies = {Len(queue)}
    /\ host \in {"add_energy_quantum", "get_total_energy"} =>
           staging_state \in {"pending", "mapped"}

\* get_total_energy has returned after two injections and a step
C24_Witness ==
    /\ host = "idle"
    /\ LastOp("get_total_energy")
    /\ injections = 2
    /\ step_count >= 1
    /\ staging_state = "unmapped"

\* the reference model's injection: one field, the sum taken exactly
RefInject(f, idx, q) == [f EXCEPT ![idx] = SaturateExact(f[idx], q)]

(***************************************************************************)
(* C25  Refinement of a single-field model.  Each operation, applied to    *)
(* the field in the active buffer, gives the field the reference model     *)
(* gives: initialize_vacuum the zero field, propagate_energy one step of   *)
(* the rule, and an in-bounds add_energy_quantum of 1..3 quanta the        *)
(* saturated field, which get_energy_buffer hands out and the next         *)
(* propagate_energy reads.  Stated as the claim; the code injects into     *)
(* energy_buffer_a whatever the step counter is.                           *)
(***************************************************************************)
C25_RefinesSingleField ==
    /\ (LastOp("initialize_vacuum") /\ queue = <<>>) => Active = Zeros
    /\ StepCompleted => StepOutput = StepResult(StepInput, params_buffer)
    /\ ( /\ LastOp("add_energy_quantum")
         /\ LastInBounds
         /\ Last.quanta \in 1..CAP
         /\ host = "idle"
         /\ queue = <<>> )
       => /\ Buf(GetEnergyBuffer) = RefInject(Last.before, LastIdx, Last.quanta)
          /\ Buf(InputBuffer(step_count)) = RefInject(Last.before, LastIdx, Last.quanta)

(***************************************************************************)
(* C26  No wrap below zero.  At every moment of Pass 2, whatever order the *)
(* threads take, a thread that has subtracted holds a pre-step value of at *)
(* least 1, and every output cell equals its pre-step value minus its own  *)
(* emission plus the quanta received so far, as an exact sum that is never *)
(* negative: no cell passes through 2^32 - 1.                              *)
(***************************************************************************)
C26_NoUnderflow ==
    HeadIs("propagate_pass") =>
        \A p \in Sites :
            /\ (tpc[p] >= 1 /\ Target(StepInput, p, params_buffer) # -1) =>
                   StepInput[p] >= 1
            /\ StepOutput[p] = StepInput[p] - Emitted(p) + Received(p)
            /\ StepOutput[p] >= 0
            /\ StepOutput[p] <= CAP + 6

\* a site holding 1 has subtracted and stands at 0 while its quantum is in flight
C26_Witness ==
    /\ HeadIs("propagate_pass")
    /\ \E p \in Sites :
           /\ StepInput[p] = 1
           /\ tpc[p] = 1
           /\ StepOutput[p] = 0

(***************************************************************************)
(* C27  Degenerate lattice.  On a 1x1x1 lattice all six directions of the  *)
(* single site lead outside, its Pass 2 thread emits nothing, and for each *)
(* initial value 0..3 the field is the initial one after every step and    *)
(* at every moment of Pass 2.                                              *)
(***************************************************************************)
C27_SingleSiteUnchanged ==
    (width = 1 /\ height = 1 /\ depth = 1) =>
        /\ Sites = {0}
        /\ \A d \in 0..5 : Neighbor(0, d) = -1
        /\ HeadIsDispatch => Target(StepInput, 0, params_buffer) = -1
        /\ HeadIsDispatch => StepInput = field0
        /\ (HeadIs("propagate_pass") \/ (HeadIs("copy_pass") /\ AllDone)) =>
               StepOutput = field0
        /\ queue = <<>> => Active = field0

\* three steps taken on the single site holding 3, the device idle
C27_Witness ==
    /\ width = 1 /\ height = 1 /\ depth = 1
    /\ field0[0] = CAP
    /\ step_count = 3
    /\ queue = <<>>
    /\ energy_buffer_a[0] = CAP /\ energy_buffer_b[0] = CAP

(***************************************************************************)
(* C28  Completion.  Every step the host has submitted eventually has both *)
(* passes run over all sites: again and again no submitted step is left    *)
(* pending, a running Pass 1 leads to the start of Pass 2 with every site  *)
(* copied, a running Pass 2 leads to all its threads done; and a blocked   *)
(* get_total_energy eventually returns, with every submitted step done.    *)
(***************************************************************************)
C28_StepsComplete ==
    /\ []<>(PendingSteps = 0)
    /\ HeadIs("copy_pass")
           ~> (HeadIs("propagate_pass") /\ tpc = Fresh /\ StepOutput = StepInput)
    /\ HeadIs("propagate_pass")
           ~> (StepCompleted /\ \A p \in Sites : tpc[p] = 2)
    /\ (host = "get_total_energy")
           ~> (host = "idle" /\ LastOp("get_total_energy") /\ queue = <<>>)

\* the total has been returned after three steps that had been left queued
C28_Witness ==
    /\ host = "idle"
    /\ LastOp("get_total_energy")
    /\ step_count = MaxSteps
    /\ queue = <<>>
    /\ total_sites = MaxSites
    /\ Active # field0

(***************************************************************************)
(* C29  Step counter.  A step of the system either leaves the step counter *)
(* alone or adds 1 to it; it adds 1 exactly when propagate_energy is       *)
(* called (the one operation that submits three commands), and every other *)
(* operation, as every step of the device, leaves it and the active buffer *)
(* as they were.                                                           *)
(***************************************************************************)
C29_StepCounter ==
    [][ /\ step_count' \in {step_count, step_count + 1}
        /\ (Len(queue') = Len(queue) + 3) <=> (step_count' = step_count + 1)
        /\ step_count' = step_count + 1 =>
              /\ Last'.op = "propagate_energy"
              /\ Last'.steps = step_count
              /\ host = "idle" /\ host' = "idle"
        /\ (history' # history /\ Last'.op # "propagate_energy") =>
              step_count' = step_count
        /\ (host' # host \/ Len(queue') < Len(queue) \/ tpc' # tpc) =>
              step_count' = step_count
        /\ (ActiveBuffer(step_count') # ActiveBuffer(step_count)) <=>
              (step_count' # step_count)
      ]_vars

\* initialize_vacuum called after three steps and an injection
C29_Witness ==
    /\ LastOp("initialize_vacuum")
    /\ step_count = 3
    /\ injections >= 1
    /\ Last.steps = 3

\* the coordinates of the lattice
Coords == {c \in (0..(width - 1)) \X (0..(height - 1)) \X (0..(depth - 1)) : TRUE}

(***************************************************************************)
(* C30  Site count and index.  In every instance new has returned, neither *)
(* multiplication of width * height * depth went past 32 bits, so the site *)
(* count that sizes the buffers is the exact product; and the in-bounds    *)
(* coordinates map one-to-one onto the indices below the site count.       *)
(* Stated as the claim; the code multiplies in u32 without a check.        *)
(***************************************************************************)
C30_ExactSiteCount ==
    host \in {"idle", "get_total_energy"} =>
        /\ ~MulOverflows(width, height)
        /\ ~MulOverflows(WrapMul(width, height), depth)
        /\ ( /\ ~MulOverflows(width, height)
             /\ ~MulOverflows(WrapMul(width, height), depth) ) =>
               /\ Cardinality(Coords) = total_sites
               /\ \A c \in Coords : Index(c[1], c[2], c[3]) \in Sites
               /\ \A c, e \in Coords :
                      Index(c[1], c[2], c[3]) = Index(e[1], e[2], e[3]) => c = e

====
